---- MODULE Spec2Model ----
(***************************************************************************)
(* State-machine model of the three CPU usage monitors of this repository: *)
(*   cpus  (src/cpus.c)  whole-system usage                                *)
(*   cpu   (src/cpu.c)   whole-system and per-core usage                   *)
(*   cpup  (src/cpup.c)  per-core usage and the ranking of processes       *)
(*                                                                         *)
(* TLC's integers are 32 bits wide, so the machine words are scaled down:  *)
(* uint64_t arithmetic is arithmetic modulo 2^WordBits and the narrowing   *)
(* of a uint64_t to int keeps the low IntBits bits as a signed value.      *)
(* Array indices are the C indices plus one.                               *)
(***************************************************************************)
EXTENDS Integers, Sequences, FiniteSets, TLC

VARIABLES variant, pc, buf, before, after, cycle, stat_in, proc_in, report, status

vars == <<variant, pc, buf, before, after, cycle, stat_in, proc_in, report, status>>

(***************************************************************************)
(* Bounds of the model.                                                    *)
(***************************************************************************)
WordBits == 4
IntBits == 3
MaxCycles == 2
MaxCores == 2
MaxPid == 2

Word == 2^WordBits
IntMod == 2^IntBits

(***************************************************************************)
(* Machine arithmetic.                                                     *)
(***************************************************************************)
Add64(a, b) == (a + b) % Word
Sub64(a, b) == (a + Word - b) % Word
ToInt(x) == LET m == x % IntMod IN IF 2 * m >= IntMod THEN m - IntMod ELSE m

(***************************************************************************)
(* cputime_t: the ten counters, in the order sscanf binds them.            *)
(***************************************************************************)
FieldOrder == <<"user", "nice", "system", "idle", "iowait",
                "irq", "softirq", "steal", "guest", "guest_nice">>
FieldNames == {FieldOrder[i] : i \in 1..Len(FieldOrder)}

cputime_t(w) ==
    [user |-> w,
     nice |-> w,
     system |-> w,
     idle |-> w,
     iowait |-> w,
     irq |-> w,
     softirq |-> w,
     steal |-> w,
     guest |-> w,
     guest_nice |-> w]

\* memset(p, 0, sizeof(cputime_t))
ZeroTime == cputime_t(0)

\* sscanf(line, "cpu %lu ... %lu", &work->user, ...): the fields the line
\* carries are stored in order, the others are left as they were.
sscanf_cpu(work, line) ==
    [user |-> IF Len(line) >= 1 THEN line[1] ELSE work.user,
     nice |-> IF Len(line) >= 2 THEN line[2] ELSE work.nice,
     system |-> IF Len(line) >= 3 THEN line[3] ELSE work.system,
     idle |-> IF Len(line) >= 4 THEN line[4] ELSE work.idle,
     iowait |-> IF Len(line) >= 5 THEN line[5] ELSE work.iowait,
     irq |-> IF Len(line) >= 6 THEN line[6] ELSE work.irq,
     softirq |-> IF Len(line) >= 7 THEN line[7] ELSE work.softirq,
     steal |-> IF Len(line) >= 8 THEN line[8] ELSE work.steal,
     guest |-> IF Len(line) >= 9 THEN line[9] ELSE work.guest,
     guest_nice |-> IF Len(line) >= 10 THEN line[10] ELSE work.guest_nice]

get_total(time) ==
    Add64(Add64(Add64(Add64(Add64(Add64(Add64(Add64(Add64(
        time.user, time.nice), time.system), time.idle), time.iowait),
        time.irq), time.softirq), time.steal), time.guest), time.guest_nice)

get_load(time) ==
    Add64(Add64(Add64(Add64(Add64(Add64(Add64(
        time.user, time.nice), time.system), time.irq), time.softirq),
        time.steal), time.guest), time.guest_nice)

get_idle(time) == Add64(time.idle, time.iowait)
get_iowait(time) == time.iowait
get_system(time) == time.system
get_user(time) == Add64(time.user, time.nice)
get_irq(time) == Add64(time.irq, time.softirq)
get_guest(time) == Add64(time.guest, time.guest_nice)

\* #define DIFF(x) {tmp = after->x - before->x; diff->x = tmp < 0 ? 0 : tmp;}
\* tmp is a uint64_t: the subtraction is modular and tmp < 0 compares the
\* unsigned result.
DIFF(b, a) == LET tmp == Sub64(a, b) IN IF tmp < 0 THEN 0 ELSE tmp

get_diff(b, a) ==
    [user |-> DIFF(b.user, a.user),
     nice |-> DIFF(b.nice, a.nice),
     system |-> DIFF(b.system, a.system),
     idle |-> DIFF(b.idle, a.idle),
     iowait |-> DIFF(b.iowait, a.iowait),
     irq |-> DIFF(b.irq, a.irq),
     softirq |-> DIFF(b.softirq, a.softirq),
     steal |-> DIFF(b.steal, a.steal),
     guest |-> DIFF(b.guest, a.guest),
     guest_nice |-> DIFF(b.guest_nice, a.guest_nice)]

(***************************************************************************)
(* The aggregate counters of a snapshot are times[cpu_num] in C, that is   *)
(* times[cpu_num + 1] here; cpus.c keeps one bare cputime_t, modelled as a *)
(* snapshot of cpu_num = 0.                                                *)
(***************************************************************************)
SUCCESS == "SUCCESS"
FAILURE == "FAILURE"

\* The per-core loop of read_stat: core i (C index i - 1) is read from the
\* line after the aggregate line and the lines of the cores before it.
\* The per-core loop with no check of what fgets and sscanf return.
read_cores_unchecked(times, lines, i, num) == [result |-> SUCCESS, times |-> times]

RECURSIVE read_cores(_, _, _, _)
read_cores(times, lines, i, num) ==
    IF i > num THEN [result |-> SUCCESS, times |-> times]
    ELSE IF Len(lines) < i + 1 THEN [result |-> FAILURE, times |-> times]
    ELSE LET work == sscanf_cpu(times[i], lines[i + 1])
             stored == [times EXCEPT ![i] = work]
         IN IF Len(lines[i + 1]) < 4
            THEN [result |-> FAILURE, times |-> stored]
            ELSE read_cores(stored, lines, i + 1, num)

\* memset(cpu->times, 0, sizeof(cputime_t) * n)
memset_times(times, n) ==
    [i \in 1..n |-> ZeroTime] \o SubSeq(times, n + 1, Len(times))

\* cpus.c: read_stat(cputime_t *cpu)
read_stat_cpus(cpu, in) ==
    IF ~in.open THEN [result |-> FAILURE, times |-> cpu.times]
    ELSE IF Len(in.lines) = 0 THEN [result |-> FAILURE, times |-> cpu.times]
    ELSE LET zeroed == memset_times(cpu.times, 1)
             stored == [zeroed EXCEPT ![1] = sscanf_cpu(@, in.lines[1])]
         IN IF Len(in.lines[1]) < 4
            THEN [result |-> FAILURE, times |-> stored]
            ELSE [result |-> SUCCESS, times |-> stored]

\* cpu.c: read_stat(cpu_t *cpu); the memset covers num + 1 records.
read_stat_cpu(cpu, in) ==
    IF ~in.open THEN [result |-> FAILURE, times |-> cpu.times]
    ELSE IF Len(in.lines) = 0 THEN [result |-> FAILURE, times |-> cpu.times]
    ELSE LET zeroed == memset_times(cpu.times, cpu.cpu_num + 1)
             stored == [zeroed EXCEPT ![cpu.cpu_num + 1] =
                                          sscanf_cpu(@, in.lines[1])]
         IN IF Len(in.lines[1]) < 4
            THEN [result |-> FAILURE, times |-> stored]
            ELSE IF cpu.cpu_num > 1
                 THEN read_cores(stored, in.lines, 1, cpu.cpu_num)
                 ELSE [result |-> SUCCESS, times |-> stored]

\* cpup.c: read_stat(cpu_t *cpu); the memset covers cpu_num records.
read_stat_cpup(cpu, in) ==
    IF ~in.open THEN [result |-> FAILURE, times |-> cpu.times]
    ELSE IF Len(in.lines) = 0 THEN [result |-> FAILURE, times |-> cpu.times]
    ELSE LET zeroed == memset_times(cpu.times, cpu.cpu_num)
             stored == [zeroed EXCEPT ![cpu.cpu_num + 1] =
                                          sscanf_cpu(@, in.lines[1])]
         IN IF Len(in.lines[1]) < 4
            THEN [result |-> FAILURE, times |-> stored]
            ELSE IF cpu.cpu_num > 1
                 THEN read_cores(stored, in.lines, 1, cpu.cpu_num)
                 ELSE [result |-> SUCCESS, times |-> stored]

read_stat(v, cpu, in) ==
    IF v = "cpus" THEN read_stat_cpus(cpu, in)
    ELSE IF v = "cpu" THEN read_stat_cpu(cpu, in)
    ELSE read_stat_cpup(cpu, in)

(***************************************************************************)
(* qsort: the array comes back ordered by the comparison function; the     *)
(* order of elements that compare equal is unspecified, and so is the      *)
(* outcome when the comparison function admits no consistent order.        *)
(***************************************************************************)
Perms(s) ==
    LET n == Len(s)
        bij == {p \in [1..n -> 1..n] : \A i, j \in 1..n : p[i] = p[j] => i = j}
    IN {SubSeq([i \in 1..n |-> s[p[i]]], 1, n) : p \in bij}

\* comp_pid with its operands exchanged.
comp_pid_reversed(a, b) == b.pid - a.pid

\* return (*(process_t**)a)->pid - (*(process_t**)b)->pid;
comp_pid(a, b) == a.pid - b.pid

\* return (*(process_t**)b)->load - (*(process_t**)a)->load;
\* the uint64_t difference is narrowed to the int the function returns.
comp_load(a, b) == ToInt(Sub64(b.load, a.load))

\* The call qsort makes through its function pointer compar, which is
\* comp_pid or comp_load.
compar(cmp, a, b) == IF cmp = "comp_pid" THEN comp_pid(a, b) ELSE comp_load(a, b)

qsort(base, cmp) ==
    LET n == Len(base)
        ordered == {t \in Perms(base) :
                       \A i, j \in 1..n : i < j => compar(cmp, t[i], t[j]) <= 0}
    IN IF ordered # {} THEN ordered ELSE Perms(base)

(***************************************************************************)
(* process_t (pid, utime, stime and the derived load; the fields that are  *)
(* only displayed are left out) and the slots of cpu->procs.  mem tells    *)
(* what a slot of the pointer array holds: "wild" is a pointer that was    *)
(* never set, "uninit" a process_t fresh from malloc, "init" a process_t   *)
(* that read_pid_stat has cleared and filled.                              *)
(* INIT_PROCS is 1024 in the code; it is scaled down here so that the      *)
(* pointer array grows within the bounds.                                  *)
(***************************************************************************)
INIT_PROCS == 1

WildSlot == [mem |-> "wild", pid |-> 0, utime |-> 0, stime |-> 0, load |-> 0]
FreshSlot == [mem |-> "uninit", pid |-> 0, utime |-> 0, stime |-> 0, load |-> 0]
ZeroProc == [mem |-> "init", pid |-> 0, utime |-> 0, stime |-> 0, load |-> 0]

\* new_cpu_t(num): times and procs come from malloc and are not cleared,
\* alloc_num is not assigned; fill and alloc are what the memory held.
new_cpu_t(num, fill, alloc) ==
    [cpu_num |-> num,
     times |-> <<>> \o [i \in 1..(num + 1) |-> cputime_t(fill)],
     proc_num |-> 0,
     alloc_num |-> alloc,
     array_num |-> INIT_PROCS,
     procs |-> <<>> \o [i \in 1..INIT_PROCS |-> WildSlot]]

ensure_next_proc(cpu) ==
    LET grown == IF cpu.array_num = cpu.proc_num
                 THEN [cpu EXCEPT !.array_num = 2 * cpu.array_num,
                                  !.procs = cpu.procs \o
                                      [i \in 1..cpu.array_num |-> WildSlot]]
                 ELSE cpu
    IN IF grown.alloc_num = grown.proc_num
       THEN [grown EXCEPT !.procs[grown.alloc_num + 1] = FreshSlot,
                          !.alloc_num = grown.alloc_num + 1]
       ELSE grown

\* parse_stat: n is the number of fields sscanf binds, the state and then
\* utime, stime, cutime, cstime, priority, nice (vals, in this order).
parse_stat(vals, proc) ==
    LET n == 1 + Len(vals)
        bound == [proc EXCEPT !.utime = IF Len(vals) >= 1 THEN vals[1] ELSE @,
                              !.stime = IF Len(vals) >= 2 THEN vals[2] ELSE @]
    IN [result |-> IF n # 7 THEN FAILURE ELSE SUCCESS, proc |-> bound]

\* read_pid_stat(proc, pid): the set of its outcomes.  When fopen fails the
\* code reaches fclose(file) with file == NULL, which is undefined: the call
\* either faults or returns.  Writing through a pointer that was never set
\* faults.
read_pid_stat(proc, pid, ent) ==
    IF ent.kind = "noopen"
    THEN {[result |-> FAILURE, proc |-> proc, crash |-> TRUE],
          [result |-> FAILURE, proc |-> proc, crash |-> FALSE]}
    ELSE IF ent.kind = "noread"
    THEN {[result |-> FAILURE, proc |-> proc, crash |-> FALSE]}
    ELSE IF proc.mem = "wild"
    THEN {[result |-> FAILURE, proc |-> proc, crash |-> TRUE]}
    ELSE LET cleared == [ZeroProc EXCEPT !.pid = pid]
             parsed == parse_stat(ent.vals, cleared)
         IN {[result |-> parsed.result, proc |-> parsed.proc, crash |-> FALSE]}

\* The process_t of a slot at or beyond proc_num is never read before
\* read_pid_stat clears it: the model keeps that it is allocated and drops
\* what it holds.
forget_dead(cpu) ==
    [cpu EXCEPT !.procs = SubSeq(cpu.procs, 1, cpu.proc_num) \o
                          [i \in 1..(cpu.array_num - cpu.proc_num) |->
                              IF cpu.procs[cpu.proc_num + i].mem = "wild"
                              THEN WildSlot ELSE FreshSlot]]

\* The readdir loop of read_process from entry k on.
RECURSIVE read_dir(_, _, _)
read_dir(cpu, ents, k) ==
    IF k > Len(ents) THEN {[cpu |-> cpu, crash |-> FALSE]}
    ELSE IF ~ents[k].numeric THEN read_dir(cpu, ents, k + 1)
    ELSE LET pid == ents[k].pid
             ensured == ensure_next_proc(cpu)
             slot == ensured.proc_num + 1
             outs == read_pid_stat(ensured.procs[slot], pid, ents[k])
         IN UNION {IF o.crash
                   THEN {[cpu |-> ensured, crash |-> TRUE]}
                   ELSE read_dir([ensured EXCEPT
                                     !.procs[slot] = o.proc,
                                     !.proc_num = IF o.result = SUCCESS
                                                  THEN @ + 1 ELSE @],
                                 ents, k + 1) : o \in outs}

\* read_process(cpu): the set of its outcomes for a listing of /proc.
read_process(cpu, dir) ==
    LET reset == forget_dead([cpu EXCEPT !.proc_num = 0])
    IN IF ~dir.open
       THEN {[result |-> FAILURE, cpu |-> reset, crash |-> FALSE]}
       ELSE UNION {IF r.crash
                   THEN {[result |-> FAILURE, cpu |-> forget_dead(r.cpu),
                          crash |-> TRUE]}
                   ELSE {[result |-> SUCCESS,
                          cpu |-> forget_dead([r.cpu EXCEPT !.procs =
                                      sorted \o SubSeq(r.cpu.procs,
                                                       r.cpu.proc_num + 1,
                                                       r.cpu.array_num)]),
                          crash |-> FALSE]
                         : sorted \in qsort(SubSeq(r.cpu.procs, 1, r.cpu.proc_num),
                                            "comp_pid")}
                   : r \in read_dir(reset, dir.ents, 1)}

(***************************************************************************)
(* Reporting.  A percentage (float) load / total * 100 is kept in tenths   *)
(* of a percent, rounded down.                                             *)
(***************************************************************************)
\* DISPLAY_PROCESS_NUM is 10 in the code; it is scaled down here so that a
\* snapshot within the bounds holds more processes than are displayed.
DISPLAY_PROCESS_NUM == 2

usage_of(load, total) == (load * 1000) \div total

\* The inner loop with the cursor taken back to the first entry of before.
RECURSIVE scan(_, _, _)
scan(b, j, pid) ==
    IF j < b.proc_num /\ b.procs[j + 1].pid < pid
    THEN LET rest == scan(b, j + 1, pid)
         IN [j |-> rest.j, steps |-> 1 + rest.steps, reads |-> <<j>> \o rest.reads]
    ELSE [j |-> j, steps |-> 0, reads |-> IF j < b.proc_num THEN <<j>> ELSE <<>>]

advance_restarted(b, j, pid) == scan(b, 0, pid)

\* for (;j < before->proc_num && before->procs[j]->pid < a->pid; j++);
\* j is where the loop leaves the cursor, steps the number of j++ made and
\* reads the values of j at which before->procs[j] was read.
RECURSIVE advance(_, _, _)
advance(b, j, pid) ==
    IF j < b.proc_num
    THEN IF b.procs[j + 1].pid < pid
         THEN LET rest == advance(b, j + 1, pid)
              IN [j |-> rest.j, steps |-> 1 + rest.steps,
                  reads |-> <<j>> \o rest.reads]
         ELSE [j |-> j, steps |-> 0, reads |-> <<j>>]
    ELSE [j |-> j, steps |-> 0, reads |-> <<>>]

\* matched without the comparison of the pids.
matched_any(b, j, a) == j < b.proc_num

\* if (j < before->proc_num) { b = before->procs[j]; if (a->pid == b->pid)
matched(b, j, a) == j < b.proc_num /\ a.pid = b.procs[j + 1].pid

\* The load added to what the sample already holds.
own_load_added(a) == Add64(a.load, Add64(a.utime, a.stime))

\* a->load = a->utime + a->stime;
own_load(a) == Add64(a.utime, a.stime)

\* The merge-walk of show_result_process from after->procs[i] on, with the
\* cursor j into before->procs; procs is after->procs.
\* js holds the cursor after each pass of the outer loop, steps and reads
\* what the whole walk made of j++ and of reads of before->procs[j].
RECURSIVE walk(_, _, _, _, _)
walk(b, procs, i, j, num) ==
    IF ~(i < num)
    THEN [procs |-> procs, j |-> j, js |-> <<>>, steps |-> 0, reads |-> <<>>]
    ELSE LET a == procs[i + 1]
             own == own_load(a)
             adv == advance(b, j, a.pid)
             j2 == adv.j
             load == IF matched(b, j2, a)
                     THEN Sub64(own, Add64(b.procs[j2 + 1].utime,
                                           b.procs[j2 + 1].stime))
                     ELSE own
             rest == walk(b, [procs EXCEPT ![i + 1].load = load], i + 1, j2, num)
         IN [procs |-> rest.procs,
             j |-> rest.j,
             js |-> <<j2>> \o rest.js,
             steps |-> adv.steps + rest.steps,
             reads |-> adv.reads \o (IF j2 < b.proc_num THEN <<j2>> ELSE <<>>)
                       \o rest.reads]

\* display with no limit on the number of rows.
display_all(num) == num

\* display = num < DISPLAY_PROCESS_NUM ? num : DISPLAY_PROCESS_NUM;
display_of(num) == IF num < DISPLAY_PROCESS_NUM THEN num ELSE DISPLAY_PROCESS_NUM

\* show_result_process(total, before, after): the set of its outcomes, the
\* after snapshot with the loads stored and the rows printed.
show_result_process(total, b, a) ==
    LET num == a.proc_num
        w == walk(b, a.procs, 0, 0, num)
        display == display_of(num)
    IN {[after |-> [a EXCEPT !.procs = w.procs],
         nproc |-> num,
         cursor |-> [js |-> w.js, steps |-> w.steps, reads |-> w.reads],
         rows |-> [i \in 1..display |->
                      [pid |-> list[i].pid,
                       usage |-> usage_of(list[i].load, total),
                       load |-> list[i].load]]]
        : list \in qsort(SubSeq(w.procs, 1, num), "comp_load")}

\* The per-core percentages (show_result_cpus in cpup.c, the loop of
\* show_result in cpu.c).
show_result_cpus(b, a) ==
    [i \in 1..b.cpu_num |->
        LET diff == get_diff(b.times[i], a.times[i])
            total == get_total(diff)
            load == get_load(diff)
        IN usage_of(load, IF total = 0 THEN 1 ELSE total)]

\* show_result(before, after) of the three programs: the set of outcomes,
\* the after snapshot as the call leaves it and the report printed.
show_result(v, b, a) ==
    LET num == b.cpu_num
        diff == get_diff(b.times[num + 1], a.times[num + 1])
        total0 == get_total(diff)
        load == get_load(diff)
        total == IF total0 = 0 THEN 1 ELSE total0
        line == [usage |-> usage_of(load, total),
                 total |-> total,
                 idle |-> get_idle(diff),
                 iowait |-> get_iowait(diff),
                 system |-> get_system(diff),
                 user |-> get_user(diff),
                 irq |-> get_irq(diff),
                 guest |-> get_guest(diff),
                 cpus |-> IF num > 1 THEN show_result_cpus(b, a) ELSE <<>>]
    IN IF v = "cpup"
       THEN {[after |-> r.after,
              report |-> [line |-> line, nproc |-> r.nproc, rows |-> r.rows,
                          cursor |-> r.cursor]]
             : r \in show_result_process(total, b, a)}
       ELSE {[after |-> a,
              report |-> [line |-> line, nproc |-> 0, rows |-> <<>>,
                          cursor |-> [js |-> <<>>, steps |-> 0, reads |-> <<>>]]]}

(***************************************************************************)
(* The inputs: what /proc/stat and /proc deliver to one read.              *)
(***************************************************************************)
\* What malloc'ed or stack memory may hold before it is written.
UninitWords == {0, 5}
UninitInts == {0, 1}

\* The fields sscanf binds from the aggregate line and from a core line.
AggLines == {<<1, 1, 1>>, <<2, 0, 1, 3>>, <<3, 1, 2, 4, 1, 1, 0, 0, 1, 0>>}
CoreLines == {<<1, 1, 1>>, <<1, 0, 1, 1>>}

\* /proc/stat as a reader of n lines sees it: it cannot be opened, or it
\* holds up to n lines, the aggregate line first; a line of fewer than 4
\* fields is the last one read.
StatInputs(aggs, cores, n) ==
    {[open |-> FALSE, lines |-> <<>>], [open |-> TRUE, lines |-> <<>>]} \cup
    {[open |-> TRUE, lines |-> <<a>> \o l] :
        a \in aggs,
        l \in {m \in UNION {[1..k -> cores] : k \in 0..(n - 1)} :
                  \A i \in 1..Len(m) : i < Len(m) => Len(m[i]) >= 4}}

LinesRead(cpu) == IF cpu.cpu_num > 1 THEN cpu.cpu_num + 1 ELSE 1

\* The fields after the state that sscanf binds from /proc/[pid]/stat.
ProcLines == {<<1>>, <<1, 0, 0, 0, 20, 0>>}

DirEntries(lines) ==
    {[numeric |-> TRUE, pid |-> p, kind |-> k, vals |-> <<>>] :
        p \in 1..MaxPid, k \in {"noopen", "noread"}} \cup
    {[numeric |-> TRUE, pid |-> p, kind |-> "line", vals |-> v] :
        p \in 1..MaxPid, v \in lines}

DotEntry == [numeric |-> FALSE, pid |-> 0, kind |-> "noread", vals |-> <<>>]

\* /proc: it cannot be opened, or readdir yields "." and then entries of
\* distinct pids in any order.
DirInputs ==
    {[open |-> FALSE, ents |-> <<>>]} \cup
    {[open |-> TRUE, ents |-> <<DotEntry>> \o l] :
        l \in {m \in UNION {[1..k -> DirEntries(ProcLines)] : k \in 0..MaxPid} :
                  \A i, j \in 1..Len(m) : m[i].pid = m[j].pid => i = j}}

\* What a listing of /proc held: whether it could be opened, the number of
\* numeric entries, and how many of them had a stat file that could not be
\* opened, could not be read, or bound fewer than 7 fields.
IsNoOpen(e) == e.numeric /\ e.kind = "noopen"
IsNoRead(e) == e.numeric /\ e.kind = "noread"
IsShort(e) == e.numeric /\ e.kind = "line" /\ 1 + Len(e.vals) # 7
IsNumeric(e) == e.numeric

Listing(dir) ==
    LET ents == dir.ents
        at == 1..Len(ents)
    IN [open |-> dir.open,
        listed |-> Cardinality({i \in at : IsNumeric(ents[i])}),
        noopen |-> Cardinality({i \in at : IsNoOpen(ents[i])}),
        noread |-> Cardinality({i \in at : IsNoRead(ents[i])}),
        short |-> Cardinality({i \in at : IsShort(ents[i])})]

(***************************************************************************)
(* main of the three programs.  stat_in holds the input of the read_stat   *)
(* that has just been made and proc_in what the listing of the             *)
(* read_process that has just been made held (empty otherwise), report the *)
(* report of the current cycle (empty until it is printed), cycle the      *)
(* number of iterations of the loop begun.                                 *)
(***************************************************************************)
EXIT_FAILURE == 1

Variants == {"cpus", "cpu", "cpup"}

\* cpu.c: new_cpu_t(num); cpus.c: the cputime_t variables of main.
new_times(num, fill) ==
    [cpu_num |-> num,
     times |-> <<>> \o [i \in 1..(num + 1) |-> cputime_t(fill)],
     proc_num |-> 0, alloc_num |-> 0, array_num |-> 0, procs |-> <<>>]

\* The two snapshots main constructs.
NewBuffers(v, num, f1, f2, a1, a2) ==
    IF v = "cpus" THEN <<new_times(0, f1), new_times(0, f2)>>
    ELSE IF v = "cpu" THEN <<new_times(num, f1), new_times(num, f2)>>
    ELSE <<new_cpu_t(num, f1, a1), new_cpu_t(num, f2, a2)>>

Init ==
    /\ variant \in Variants
    /\ \E num \in 1..MaxCores, fill \in UninitWords,
          a1 \in UninitInts, a2 \in UninitInts :
          buf = NewBuffers(variant, num, fill, fill, a1, a2)
    /\ before = 1
    /\ after = 2
    /\ pc = "read_stat0"
    /\ cycle = 0
    /\ stat_in = <<>>
    /\ proc_in = <<>>
    /\ report = <<>>
    /\ status = 0

\* The buffer the next read fills: before ahead of the loop, after in it.
Target == IF pc \in {"read_stat0", "read_proc0"} THEN before ELSE after

\* Where main goes after a read_stat that returned r.
AfterReadStat(v, at, r) ==
    IF v # "cpus" /\ r.result # SUCCESS THEN "error"
    ELSE IF v = "cpup"
    THEN (IF at = "read_stat0" THEN "read_proc0" ELSE "read_proc")
    ELSE (IF at = "read_stat0" THEN "read_stat" ELSE "show")

\* Where main goes after a read_process with outcome o.
AfterReadProcess(at, o) ==
    IF o.crash THEN "crash"
    ELSE IF o.result # SUCCESS THEN "error"
    ELSE IF at = "read_proc0" THEN "read_stat" ELSE "show"

\* read_stat(before) ahead of the loop; sleep(5) and read_stat(after) in it.
ReadStat ==
    /\ pc \in {"read_stat0", "read_stat"}
    /\ pc = "read_stat" => cycle < MaxCycles
    /\ \E in \in StatInputs(AggLines, CoreLines, LinesRead(buf[Target])) :
          LET r == read_stat(variant, buf[Target], in)
          IN /\ stat_in' = <<in>>
             /\ buf' = [buf EXCEPT ![Target].times = r.times]
             /\ pc' = AfterReadStat(variant, pc, r)
    /\ cycle' = IF pc = "read_stat" THEN cycle + 1 ELSE cycle
    /\ proc_in' = <<>>
    /\ UNCHANGED <<variant, before, after, report, status>>

\* cpup.c: read_process(before) ahead of the loop, read_process(after) in it.
ReadProcess ==
    /\ pc \in {"read_proc0", "read_proc"}
    /\ \E dir \in DirInputs : \E o \in read_process(buf[Target], dir) :
          /\ proc_in' = <<Listing(dir)>>
          /\ buf' = [buf EXCEPT ![Target] = o.cpu]
          /\ pc' = AfterReadProcess(pc, o)
    /\ stat_in' = <<>>
    /\ UNCHANGED <<variant, before, after, cycle, report, status>>

\* show_result(before, after)
ShowResult ==
    /\ pc = "show"
    /\ \E o \in show_result(variant, buf[before], buf[after]) :
          /\ buf' = [buf EXCEPT ![after] = o.after]
          /\ report' = <<o.report>>
    /\ pc' = "swap"
    /\ stat_in' = <<>>
    /\ proc_in' = <<>>
    /\ UNCHANGED <<variant, before, after, cycle, status>>

\* The end of a cycle that leaves before as it was.
Swap_kept ==
    /\ pc = "swap"
    /\ pc' = "read_stat"
    /\ report' = <<>>
    /\ UNCHANGED <<variant, buf, before, after, cycle, stat_in, proc_in, status>>

\* SWAP(before, after) in cpu.c and cpup.c, before = after in cpus.c; the
\* report of the cycle has been printed.
Swap ==
    /\ pc = "swap"
    /\ IF variant = "cpus"
       THEN /\ buf' = [buf EXCEPT ![before] = buf[after]]
            /\ UNCHANGED <<before, after>>
       ELSE /\ before' = after
            /\ after' = before
            /\ UNCHANGED buf
    /\ pc' = "read_stat"
    /\ report' = <<>>
    /\ UNCHANGED <<variant, cycle, stat_in, proc_in, status>>

\* delete_cpu_t(cpu) frees procs[0 .. alloc_num - 1]: it is defined only
\* when each of these slots holds a pointer malloc returned.
delete_cpu_t_defined(cpu) ==
    /\ cpu.alloc_num <= cpu.array_num
    /\ \A i \in 1..cpu.alloc_num : cpu.procs[i].mem # "wild"

\* The error label of main: both snapshots are deleted and main returns
\* EXIT_FAILURE; freeing a pointer that was never set either faults or
\* goes unnoticed.
Exit ==
    /\ pc = "error"
    /\ \/ pc' = "exit" /\ status' = EXIT_FAILURE
       \/ /\ ~(delete_cpu_t_defined(buf[before]) /\ delete_cpu_t_defined(buf[after]))
          /\ pc' = "crash"
          /\ status' = status
    /\ UNCHANGED <<variant, buf, before, after, cycle, stat_in, proc_in, report>>

Next == ReadStat \/ ReadProcess \/ ShowResult \/ Swap \/ Exit

Spec == Init /\ [][Next]_vars

(***************************************************************************)
(* The first report of a run, over a wider range of counters: main has     *)
(* read before and after (the counters of before and after taken from      *)
(* ShowLines, the processes from BeforeProcLines and AfterProcLines) and   *)
(* is about to call show_result.                                           *)
(***************************************************************************)
MaxRankPid == 4

ShowLines == {<<1, 0, 1, 2, 1, 0, 0, 0, 0, 0>>,
              <<2, 0, 1, 1, 1, 0, 0, 0, 0, 0>>,
              <<3, 1, 2, 4, 1, 1, 0, 0, 1, 0>>}

BeforeProcLines == {<<1, 1, 0, 0, 20, 0>>}
AfterProcLines == {<<1, 0, 0, 0, 20, 0>>, <<2, 4, 0, 0, 20, 0>>}

\* /proc/stat with the same counters on the aggregate line and on the n - 1
\* core lines.
ShowStatInputs(n) ==
    {[open |-> TRUE, lines |-> <<>> \o [i \in 1..n |-> a]] : a \in ShowLines}

\* /proc listing the pids of a subset of 1..MaxRankPid in ascending order,
\* each with a stat line of the given set.
ShowDirInputs(lines) ==
    {[open |-> TRUE,
      ents |-> <<DotEntry>> \o
               [i \in 1..Len(m) |->
                   [numeric |-> TRUE, pid |-> m[i].pid, kind |-> "line",
                    vals |-> m[i].vals]]] :
        m \in {q \in UNION {[1..k -> [pid : 1..MaxRankPid, vals : lines]] :
                                k \in 0..MaxRankPid} :
                  \A i, j \in 1..Len(q) : i < j => q[i].pid < q[j].pid}}

\* The snapshots a successful read_stat, and in cpup read_process, leave.
Snapshots(v, cpu, ins, dirs) ==
    UNION {LET r == read_stat(v, cpu, in)
               filled == [cpu EXCEPT !.times = r.times]
           IN IF r.result # SUCCESS THEN {}
              ELSE IF v # "cpup" THEN {filled}
              ELSE UNION {{o.cpu : o \in {x \in read_process(filled, d) :
                                             ~x.crash /\ x.result = SUCCESS}}
                          : d \in dirs}
           : in \in ins}

InitShow ==
    /\ variant \in Variants
    /\ \E num \in 1..MaxCores, fill \in UninitWords :
          LET new == NewBuffers(variant, num, fill, fill, 0, 0)
              n == LinesRead(new[1])
          IN \E b \in Snapshots(variant, new[1], ShowStatInputs(n),
                                ShowDirInputs(BeforeProcLines)),
                a \in Snapshots(variant, new[2], ShowStatInputs(n),
                                ShowDirInputs(AfterProcLines)) :
                buf = <<b, a>>
    /\ before = 1
    /\ after = 2
    /\ pc = "show"
    /\ cycle = 1
    /\ stat_in = <<>>
    /\ proc_in = <<>>
    /\ report = <<>>
    /\ status = 0

SpecShow == InitShow /\ [][ShowResult]_vars

(***************************************************************************)
(* show_result applied a second time to the two snapshots of a report, as  *)
(* the first application left them; report then holds both reports.  The   *)
(* snapshots are those of cpup on one core.                                *)
(***************************************************************************)
\* /proc/stat holding the one line given.
RerunStatInput(line) == {[open |-> TRUE, lines |-> <<line>>]}

InitRerun ==
    /\ variant = "cpup"
    /\ LET new == NewBuffers(variant, 1, 0, 0, 0, 0)
       IN \E b \in Snapshots(variant, new[1],
                             RerunStatInput(<<1, 0, 1, 2, 1, 0, 0, 0, 0, 0>>),
                             ShowDirInputs(BeforeProcLines)),
             a \in Snapshots(variant, new[2],
                             RerunStatInput(<<3, 1, 2, 4, 1, 1, 0, 0, 1, 0>>),
                             ShowDirInputs(AfterProcLines)) :
             buf = <<b, a>>
    /\ before = 1
    /\ after = 2
    /\ pc = "show"
    /\ cycle = 1
    /\ stat_in = <<>>
    /\ proc_in = <<>>
    /\ report = <<>>
    /\ status = 0

ShowAgain ==
    /\ pc = "swap"
    /\ \E o \in show_result(variant, buf[before], buf[after]) :
          /\ buf' = [buf EXCEPT ![after] = o.after]
          /\ report' = report \o <<o.report>>
    /\ pc' = "show2"
    /\ UNCHANGED <<variant, before, after, cycle, stat_in, proc_in, status>>

NextRerun == ShowResult \/ ShowAgain

SpecRerun == InitRerun /\ [][NextRerun]_vars

(***************************************************************************)
(* Properties.                                                             *)
(***************************************************************************)
Agg(cpu) == cpu.times[cpu.cpu_num + 1]

\* The records show_result hands to get_diff: the aggregate, and the cores
\* when there are more than one.
Diffed ==
    LET num == buf[before].cpu_num
    IN {<<buf[before].times[i], buf[after].times[i]>> :
           i \in IF num > 1 THEN 1..(num + 1) ELSE {num + 1}}

Clamp(b, a) == IF a >= b THEN a - b ELSE 0

\* C1: once show_result has run, every field of every diff it took is
\* after - before when after >= before and 0 when after < before.
C1_DiffClamped ==
    pc = "swap" =>
        \A p \in Diffed : \A f \in FieldNames :
            get_diff(p[1], p[2])[f] = Clamp(p[1][f], p[2][f])

LivePids(cpu) == {cpu.procs[i].pid : i \in 1..cpu.proc_num}
SampleOf(cpu, pid) ==
    cpu.procs[CHOOSE i \in 1..cpu.proc_num : cpu.procs[i].pid = pid]

\* C2: once show_result_process has run, a process whose pid is in both
\* snapshots has load (after.utime + after.stime) - (before.utime +
\* before.stime), or 0 when the after sum is the smaller.
C2_LoadClamped ==
    (pc = "swap" /\ variant = "cpup") =>
        \A i \in 1..buf[after].proc_num :
            LET a == buf[after].procs[i]
            IN a.pid \in LivePids(buf[before]) =>
                  LET b == SampleOf(buf[before], a.pid)
                  IN a.load = Clamp(b.utime + b.stime, a.utime + a.stime)

\* C3: the rows show_result_process prints are in descending order of load,
\* and rows of equal load in ascending order of pid.
C3_RankedOrder ==
    (pc = "swap" /\ variant = "cpup") =>
        LET rows == report[1].rows
        IN \A i, j \in 1..Len(rows) :
              i < j => \/ rows[i].load > rows[j].load
                       \/ rows[i].load = rows[j].load /\ rows[i].pid < rows[j].pid

\* The read of /proc/stat fails: it cannot be opened, its first line cannot
\* be read, or the aggregate line has fewer than 4 fields.
StatReadFails(in) ==
    \/ ~in.open
    \/ Len(in.lines) = 0
    \/ Len(in.lines[1]) < 4

\* C4: when the read of a cycle fails the run is aborted: main goes to its
\* error exit, from where nothing is read or reported and it ends with a
\* non-zero status.
C4_ReadFailureAborts ==
    [][/\ (pc = "read_stat" /\ StatReadFails(stat_in'[1])) => pc' = "error"
       /\ pc = "error" => /\ pc' \in {"exit", "crash"}
                          /\ pc' = "exit" => status' # 0
                          /\ report' = <<>>]_vars

\* alloc_num counts slots that hold allocated process_t.
SoundSlots(cpu) ==
    /\ cpu.alloc_num <= cpu.array_num
    /\ \A i \in 1..cpu.alloc_num : cpu.procs[i].mem # "wild"

\* C5: a read_process whose listing holds processes whose stat cannot be
\* opened, cannot be read or binds fewer than 7 fields leaves them out of
\* the snapshot, returns SUCCESS and the run goes on.
C5_ProcessSkipped ==
    [][(/\ pc \in {"read_proc0", "read_proc"}
        /\ SoundSlots(buf[Target])
        /\ proc_in'[1].open
        /\ proc_in'[1].noopen + proc_in'[1].noread + proc_in'[1].short > 0)
       => /\ pc' = IF pc = "read_proc0" THEN "read_stat" ELSE "show"
          /\ buf'[Target].proc_num =
                proc_in'[1].listed - (proc_in'[1].noopen + proc_in'[1].noread
                                      + proc_in'[1].short)]_vars

\* The snapshot the read_stat that has just been made filled.
LastRead == IF pc = "read_proc0" \/ (pc \in {"read_stat", "error", "exit", "crash"}
                                      /\ cycle = 0)
            THEN before ELSE after

\* C6: after read_stat has returned SUCCESS for an aggregate line of k
\* fields, 4 <= k < 10, fields k + 1 to 10 of the aggregate record are 0.
C6_MissingFieldsZero ==
    (/\ stat_in # <<>>
     /\ read_stat(variant, buf[LastRead], stat_in[1]).result = SUCCESS)
    => \A i \in 1..Len(FieldOrder) :
          i > Len(stat_in[1].lines[1]) => Agg(buf[LastRead])[FieldOrder[i]] = 0

\* A percentage, in tenths of a percent, computed from a delta of total t.
UsageInRange(t, u) == (t > 0 => 0 <= u /\ u <= 1000) /\ (t = 0 => u = 0)

\* C7: the percentage show_result reports for the aggregate and for each
\* core lies in [0, 100] when the total of the delta is > 0 and is 0 when it
\* is 0.
C7_UsageInRange ==
    pc = "swap" =>
        LET num == buf[before].cpu_num
            line == report[1].line
        IN /\ UsageInRange(get_total(get_diff(Agg(buf[before]), Agg(buf[after]))),
                           line.usage)
           /\ \A i \in 1..Len(line.cpus) :
                 UsageInRange(get_total(get_diff(buf[before].times[i],
                                                 buf[after].times[i])),
                              line.cpus[i])

Raw(cpu) ==
    [cpu EXCEPT !.procs = <<>> \o [i \in 1..Len(cpu.procs) |->
                                      [cpu.procs[i] EXCEPT !.load = 0]]]

SortedByPid(cpu) ==
    \A i, j \in 1..cpu.proc_num : i < j => cpu.procs[i].pid < cpu.procs[j].pid

\* C9: whenever the merge-walk of show_result_process starts, and after the
\* ranking and the exchange of the buffers, the processes of both snapshots
\* are in strictly ascending order of pid.
C9_ProcsSorted ==
    (variant = "cpup" /\ pc \in {"show", "swap", "read_stat", "read_proc"}) =>
        SortedByPid(buf[before]) /\ SortedByPid(buf[after])

\* The second cycle is about to rank two snapshots of several processes.
C9_Witness ==
    /\ variant = "cpup"
    /\ pc = "show"
    /\ cycle = 2
    /\ buf[before].proc_num >= 2
    /\ buf[after].proc_num >= 2

\* C10: once show_result_process has run, a process whose pid is in no
\* entry of before has load utime + stime.
C10_NewProcessLoad ==
    (pc = "swap" /\ variant = "cpup") =>
        \A i \in 1..buf[after].proc_num :
            LET a == buf[after].procs[i]
            IN a.pid \notin LivePids(buf[before]) => a.load = a.utime + a.stime

\* show_result_process has ranked a process that is new and whose pid lies
\* between two pids of before, next to a process that is in both snapshots.
C10_Witness ==
    /\ pc = "swap"
    /\ variant = "cpup"
    /\ \E i \in 1..buf[after].proc_num :
          LET a == buf[after].procs[i]
          IN /\ a.pid \notin LivePids(buf[before])
             /\ \E p, q \in LivePids(buf[before]) : p < a.pid /\ a.pid < q
    /\ LivePids(buf[after]) \cap LivePids(buf[before]) # {}

Min(x, y) == IF x < y THEN x ELSE y

\* C11: show_result_process prints min(DISPLAY_PROCESS_NUM, after.proc_num)
\* rows, each of them a process of the after snapshot with the load stored
\* in it, and no process twice.
C11_RowsOfAfter ==
    (pc = "swap" /\ variant = "cpup") =>
        LET rows == report[1].rows
            a == buf[after]
        IN /\ Len(rows) = Min(DISPLAY_PROCESS_NUM, a.proc_num)
           /\ report[1].nproc = a.proc_num
           /\ \A i \in 1..Len(rows) :
                 /\ rows[i].pid \in LivePids(a)
                 /\ rows[i].load = SampleOf(a, rows[i].pid).load
           /\ \A i, j \in 1..Len(rows) : rows[i].pid = rows[j].pid => i = j

\* show_result_process has ranked more processes than it displays, next to
\* a process that is in before only.
C11_Witness ==
    /\ pc = "swap"
    /\ variant = "cpup"
    /\ buf[after].proc_num > DISPLAY_PROCESS_NUM
    /\ Len(report[1].rows) = DISPLAY_PROCESS_NUM
    /\ LivePids(buf[before]) \ LivePids(buf[after]) # {}

CoreReadFails(in, num) ==
    /\ ~StatReadFails(in)
    /\ \/ Len(in.lines) < num + 1
       \/ \E i \in 2..(num + 1) : i <= Len(in.lines) /\ Len(in.lines[i]) < 4

\* What C13 asks of a step of main.
C13_Step ==
    variant \in {"cpu", "cpup"} =>
        LET cpu == buf[Target]
            num == cpu.cpu_num
        IN /\ (pc \in {"read_stat0", "read_stat"} /\ num > 1
               /\ CoreReadFails(stat_in'[1], num))
              => /\ read_stat(variant, cpu, stat_in'[1]).result = FAILURE
                 /\ pc' = "error"
           /\ (pc \in {"read_stat0", "read_stat"} /\ num <= 1)
              => /\ StatReadFails(stat_in'[1]) <=> pc' = "error"
                 /\ Len(stat_in'[1].lines) >= 1 =>
                       \A more \in CoreLines :
                          read_stat(variant, cpu,
                                    [stat_in'[1] EXCEPT !.lines = @ \o <<more>>])
                          = read_stat(variant, cpu, stat_in'[1])
           /\ pc = "error" => /\ pc' \in {"exit", "crash"}
                              /\ report' = <<>>
           /\ (pc = "show" /\ buf[before].cpu_num <= 1)
              => Len(report'[1].line.cpus) = 0

\* C13: in cpu and cpup a read_stat on more than one core whose per-core
\* lines fail returns FAILURE and main goes to its error exit, from where
\* nothing is reported; on one core read_stat reads no per-core line (what
\* follows the aggregate line changes nothing of what it does) and the
\* report holds no per-core percentage.
C13_CoreReadFailure == [][C13_Step]_vars

\* In the loop a read_stat on several cores has read the aggregate line and
\* its per-core lines have failed: main is at its error exit.
C13_Witness ==
    /\ variant = "cpup"
    /\ pc = "error"
    /\ cycle >= 1
    /\ stat_in # <<>>
    /\ buf[after].cpu_num > 1
    /\ CoreReadFails(stat_in[1], buf[after].cpu_num)

\* C14: over the merge-walk of show_result_process the cursor j never
\* decreases and stays within 0..before.proc_num, before->procs[j] is read
\* only at j < before.proc_num, and j++ is made at most before.proc_num
\* times.
C14_CursorBounds ==
    (pc = "swap" /\ variant = "cpup") =>
        LET c == report[1].cursor
            n == buf[before].proc_num
        IN /\ Len(c.js) = buf[after].proc_num
           /\ \A k \in 1..Len(c.js) : 0 <= c.js[k] /\ c.js[k] <= n
           /\ \A k \in 1..(Len(c.js) - 1) : c.js[k] <= c.js[k + 1]
           /\ \A k \in 1..Len(c.reads) : 0 <= c.reads[k] /\ c.reads[k] < n
           /\ c.steps <= n
           /\ Len(c.js) > 0 => c.steps = c.js[Len(c.js)]

\* The walk has taken the cursor past every one of several entries of
\* before, and processes of after were left to walk with the cursor there.
C14_Witness ==
    /\ pc = "swap"
    /\ variant = "cpup"
    /\ buf[before].proc_num >= 2
    /\ buf[after].proc_num >= 3
    /\ report[1].cursor.steps = buf[before].proc_num
    /\ report[1].cursor.js[2] = buf[before].proc_num
    /\ report[1].cursor.js[1] = 1

\* C15: once read_process has run on a snapshot new_cpu_t made, proc_num <=
\* alloc_num <= array_num holds in it, every slot below alloc_num holds an
\* allocated process_t, and so does the slot at proc_num that the next
\* read_pid_stat writes; no read_process ends in a fault of its own.
C15_SlotBookkeeping ==
    variant = "cpup" =>
        /\ pc \in {"read_stat", "read_proc", "show", "swap"} =>
           \A k \in {before, after} :
              LET cpu == buf[k]
              IN /\ 0 <= cpu.proc_num
                 /\ cpu.proc_num <= cpu.alloc_num
                 /\ cpu.alloc_num <= cpu.array_num
                 /\ Len(cpu.procs) = cpu.array_num
                 /\ \A i \in 1..cpu.alloc_num : cpu.procs[i].mem # "wild"
                 /\ LET next == ensure_next_proc(cpu)
                    IN /\ next.proc_num < next.array_num
                       /\ next.procs[next.proc_num + 1].mem # "wild"
        /\ (pc = "crash" /\ proc_in # <<>>) => proc_in[1].noopen > 0

Sign(x) == IF x < 0 THEN -1 ELSE IF x = 0 THEN 0 ELSE 1

\* C16: for the loads of any two processes show_result_process has ranked,
\* comp_load is negative exactly when the load of the first is the greater,
\* zero exactly when the loads are equal and positive exactly when the load
\* of the first is the smaller.
C16_CompLoadSign ==
    (pc = "swap" /\ variant = "cpup") =>
        \A i, j \in 1..buf[after].proc_num :
            LET p == buf[after].procs[i]
                q == buf[after].procs[j]
            IN Sign(comp_load(p, q)) = Sign(q.load - p.load)

====
